---- MODULE Spec2Model ----
(***************************************************************************)
(* A model of dynamostore (src/dynamostore.go): a gorilla/sessions Store   *)
(* that keeps one DynamoDB item per session id and hands the client a      *)
(* signed cookie that carries the id.                                      *)
(*                                                                         *)
(* Time is time.Now().Unix(), in seconds.  The clock advances in steps of  *)
(* TickStep seconds, the default age, so that the instants before, at and  *)
(* after a ttl are all visited.  One session name is in use.               *)
(***************************************************************************)
EXTENDS Integers, FiniteSets, Sequences, TLC

(***************************************************************************)
(* Bounds of the model.                                                    *)
(***************************************************************************)
MaxTicks == 2

TickStep == 86400 * 30

(***************************************************************************)
(* Program constants.                                                      *)
(***************************************************************************)
DefaultMaxAge == 86400 * 30
DefaultTTLEnabled == TRUE
\* securecookie.New gives every codec an age ceiling of 30 days.
CodecDefaultMaxAge == 86400 * 30

IDs == {"a", "b"}
Vals == {"alice"}
Handles == {1, 2}

\* session.Values: a set of <<key, value>> pairs.
EmptyValues == {}
ValueMaps == {EmptyValues} \cup {{<<"name", v>>} : v \in Vals}

\* Values the application and the operator give to a MaxAge.
SessionAges == {-1, 0, DefaultMaxAge}
StoreAges == {2 * DefaultMaxAge}
ConfigAges == {0}

\* Faults of the collaborators during one call: at most one per call.
Faults == {"none", "get", "encode", "put", "cookie", "delete"}

(***************************************************************************)
(* The configuration bag of NewDynamoStore: a map[string]interface{}.  A   *)
(* value has a dynamic type (kind) and, by it, a string, a number or a     *)
(* boolean.  An int64 n is kept as the pair hi, lo with n = hi * 2^16 + lo *)
(* and 0 <= lo < 2^16, so that values beyond 32 bits can be written.       *)
(***************************************************************************)
DefaultDynamoDBTableName == "session-backend"
DefaultDynamoDBReadCapacity == 5
DefaultDynamoDBWriteCapacity == 5
DefaultDynamoDBRegion == "us-east-1"

Half == 2 ^ 16

Num(k) == [hi |-> k \div Half, lo |-> k % Half]

\* 2^31 - 1, 2^31 and 2^32 + 5.
MaxInt32 == [hi |-> Half \div 2 - 1, lo |-> Half - 1]
PastInt32 == [hi |-> Half \div 2, lo |-> 0]
PastUint32 == [hi |-> Half, lo |-> 5]

Positive(n) == n.hi > 0 \/ (n.hi = 0 /\ n.lo > 0)

\* The integer a pair stands for, when it has at most 32 bits.
IntValue(n) == n.hi * Half + n.lo

\* The sizes of int among the builds of the package.
IntSizes == {32, 64}

\* The conversion int(n) of an int64 where int has the given size: the low
\* bits, in two's complement.
ToIntSaturating(n, bits) ==
    IF bits = 64
    THEN n
    ELSE IF n.hi >= Half \div 2 THEN MaxInt32
    ELSE IF n.hi < 0 - Half \div 2 THEN [hi |-> 0 - Half \div 2, lo |-> 0]
    ELSE n

ToInt(n, bits) ==
    IF bits = 64
    THEN n
    ELSE LET h == n.hi % Half
         IN  [hi |-> IF h >= Half \div 2 THEN h - Half ELSE h, lo |-> n.lo]

Keys == {"table", "read_capacity", "write_capacity", "region", "endpoint",
         "max_age", "ttl_enabled"}

Missing == [kind |-> "missing", s |-> "", n |-> Num(0), b |-> FALSE]
VString(x) == [kind |-> "string", s |-> x, n |-> Num(0), b |-> FALSE]
VInt64(x) == [kind |-> "int64", s |-> "", n |-> x, b |-> FALSE]
VInt(x) == [kind |-> "int", s |-> "", n |-> x, b |-> FALSE]
VBool(x) == [kind |-> "bool", s |-> "", n |-> Num(0), b |-> x]

\* The type assertions v.(string), v.(int64) and v.(bool) in their comma-ok
\* form: the zero value when the dynamic type is another.
AssertString(v) == [ok |-> v.kind = "string", val |-> IF v.kind = "string" THEN v.s ELSE ""]

AssertInt64AnyInt(v) ==
    [ok |-> v.kind \in {"int64", "int"}, val |-> IF v.kind \in {"int64", "int"} THEN v.n ELSE Num(0)]

AssertInt64(v) == [ok |-> v.kind = "int64", val |-> IF v.kind = "int64" THEN v.n ELSE Num(0)]

AssertBool(v) == [ok |-> v.kind = "bool", val |-> IF v.kind = "bool" THEN v.b ELSE FALSE]

EmptyConfig == [k \in Keys |-> Missing]

\* What an int64 option is given: values of the type, zero, negative and
\* positive, and values of other types.
CapacityValues == {Missing, VInt64(Num(7)), VInt64(Num(0)), VInt64(Num(-1)), VString("abc"),
                   VInt(Num(-1)), VInt(Num(9))}
AgeValues == {Missing, VInt64(Num(0)), VInt64(Num(-1)), VInt64(Num(1)),
              VInt64(Num(2 * (86400 * 30))), VInt64(MaxInt32), VInt64(PastInt32),
              VInt64(PastUint32), VString("abc"), VInt(Num(3600))}
NameValues == {Missing, VString(""), VString("x"), VBool(TRUE)}
FlagValues == {Missing, VBool(TRUE), VBool(FALSE), VString("true")}

\* The bags explored: the capacities vary, or the age and the ttl flag, or
\* the names.
Configs ==
    {[EmptyConfig EXCEPT !["read_capacity"] = r, !["write_capacity"] = w] :
        r \in CapacityValues, w \in CapacityValues}
    \cup {[EmptyConfig EXCEPT !["max_age"] = a, !["ttl_enabled"] = t] :
        a \in AgeValues, t \in FlagValues}
    \cup {[EmptyConfig EXCEPT !["table"] = t, !["region"] = r, !["endpoint"] = e] :
        t \in NameValues, r \in NameValues, e \in NameValues}

(***************************************************************************)
(* DynamoDB's tables: whether a table of the name exists, its provisioned  *)
(* throughput, the attribute that its TimeToLive is enabled on ("" for     *)
(* none) and how many times it was created.                                *)
(***************************************************************************)
TableNames == {DefaultDynamoDBTableName, "x"}

NoTable == [exists |-> FALSE, read |-> Num(0), write |-> Num(0), ttlAttribute |-> "",
            created |-> 0]

NoTables == [n \in TableNames |-> NoTable]

\* What makes a call of the bootstrap fail: DescribeTable with an error of the
\* service other than ResourceNotFoundException ("describe") or with an error
\* that is no awserr.Error ("transport"), CreateTable, WaitUntilTableExists,
\* UpdateTimeToLive.
BootstrapFaults == {"none", "describe", "transport", "create", "wait", "ttl"}

\* client.DescribeTable: its error, and whether that is an awserr.Error.
DescribeTable(tbls, name, fault) ==
    IF fault = "describe" THEN [err |-> "InternalServerError", awserr |-> TRUE]
    ELSE IF fault = "transport" THEN [err |-> "transport", awserr |-> FALSE]
    ELSE IF tbls[name].exists THEN [err |-> "", awserr |-> FALSE]
    ELSE [err |-> "ResourceNotFoundException", awserr |-> TRUE]

\* client.CreateTable: DynamoDB refuses a name in use.
CreateTable(tbls, name, read, write, fault) ==
    IF fault = "create" THEN [err |-> "create", tables |-> tbls]
    ELSE IF tbls[name].exists THEN [err |-> "ResourceInUseException", tables |-> tbls]
    ELSE [err |-> "",
          tables |-> [tbls EXCEPT ![name] = [exists |-> TRUE, read |-> read, write |-> write,
                                             ttlAttribute |-> "",
                                             created |-> tbls[name].created + 1]]]

\* client.UpdateTimeToLive with the attribute "ttl", enabled.
UpdateTimeToLive(tbls, name, fault) ==
    IF fault = "ttl" THEN [err |-> "ttl", tables |-> tbls]
    ELSE [err |-> "", tables |-> [tbls EXCEPT ![name].ttlAttribute = "ttl"]]

\* configureTable: its error, the tables it leaves and the calls it issued.
configureTable(tbls, name, read, write, ttl, fault) ==
    LET c == CreateTable(tbls, name, read, write, fault)
        u == UpdateTimeToLive(c.tables, name, fault)
    IN  IF c.err # ""
        THEN [err |-> c.err, tables |-> c.tables, calls |-> <<"CreateTable">>]
        ELSE IF fault = "wait"
        THEN [err |-> "wait", tables |-> c.tables,
              calls |-> <<"CreateTable", "WaitUntilTableExists">>]
        ELSE IF ~ttl
        THEN [err |-> "", tables |-> c.tables,
              calls |-> <<"CreateTable", "WaitUntilTableExists">>]
        ELSE [err |-> u.err, tables |-> u.tables,
              calls |-> <<"CreateTable", "WaitUntilTableExists", "UpdateTimeToLive">>]

\* createTableIfNotExists: its error, the tables it leaves and the calls it
\* issued.
createTableIfNotExistsReconciles(tbls, name, read, write, ttl, fault) ==
    LET d == DescribeTable(tbls, name, fault)
        c == configureTable(tbls, name, read, write, ttl, fault)
        u == UpdateTimeToLive(tbls, name, fault)
    IN  IF d.awserr /\ d.err = "ResourceNotFoundException"
        THEN [err |-> c.err, tables |-> c.tables, calls |-> <<"DescribeTable">> \o c.calls]
        ELSE IF d.err = "" /\ ttl
        THEN [err |-> u.err, tables |-> u.tables,
              calls |-> <<"DescribeTable", "UpdateTimeToLive">>]
        ELSE [err |-> d.err, tables |-> tbls, calls |-> <<"DescribeTable">>]

createTableIfNotExists(tbls, name, read, write, ttl, fault) ==
    LET d == DescribeTable(tbls, name, fault)
        c == configureTable(tbls, name, read, write, ttl, fault)
    IN  IF d.awserr /\ d.err = "ResourceNotFoundException"
        THEN [err |-> c.err, tables |-> c.tables, calls |-> <<"DescribeTable">> \o c.calls]
        ELSE [err |-> d.err, tables |-> tbls, calls |-> <<"DescribeTable">>]

NoStore == [table |-> "", region |-> "", endpoint |-> "", readCapacity |-> Num(0),
            writeCapacity |-> Num(0), ttlEnabled |-> FALSE, MaxAge |-> Num(0)]

\* What makes the constructor fail: session.NewSession, or the bootstrap of the
\* table.
ConstructionFaults == {"none", "session", "bootstrap"}

\* NewDynamoStore: its error and the store it returns, with the options the
\* bootstrap of the table was given.
NewDynamoStore(config, bits, fault) ==
    LET t == AssertString(config["table"])
        rc == AssertInt64(config["read_capacity"])
        wc == AssertInt64(config["write_capacity"])
        ma == AssertInt64(config["max_age"])
        rg == AssertString(config["region"])
        te == AssertBool(config["ttl_enabled"])
        ep == AssertString(config["endpoint"])
        table0 == IF ~t.ok \/ t.val = "" THEN DefaultDynamoDBTableName ELSE t.val
        readCapacity == IF ~rc.ok \/ ~Positive(rc.val)
                        THEN Num(DefaultDynamoDBReadCapacity) ELSE rc.val
        writeCapacity == IF ~wc.ok \/ ~Positive(wc.val)
                         THEN Num(DefaultDynamoDBWriteCapacity) ELSE wc.val
        maxAge == IF ~ma.ok \/ ~Positive(ma.val) THEN Num(DefaultMaxAge) ELSE ma.val
        region == IF ~rg.ok \/ rg.val = "" THEN DefaultDynamoDBRegion ELSE rg.val
        ttlEnabled0 == IF ~te.ok THEN DefaultTTLEnabled ELSE te.val
        endpoint == IF ~ep.ok THEN "" ELSE ep.val
    IN  IF fault # "none"
        THEN [err |-> fault, store |-> NoStore]
        ELSE [err |-> "",
              store |-> [table |-> table0, region |-> region, endpoint |-> endpoint,
                         readCapacity |-> readCapacity, writeCapacity |-> writeCapacity,
                         ttlEnabled |-> ttlEnabled0, MaxAge |-> ToInt(maxAge, bits)]]

\* The runs explored, each with one session object per request: one id while
\* the clock runs MaxTicks steps, with ttl enabled or not, and the operator
\* may call MaxAge; or all the ids, with the default ttl flag, while the clock
\* stands still.
Environments ==
    {[ids |-> {"a"}, ticks |-> MaxTicks, ttl |-> BOOLEAN, handles |-> {1},
      storeAges |-> StoreAges],
     [ids |-> IDs, ticks |-> 0, ttl |-> {DefaultTTLEnabled}, handles |-> {1},
      storeAges |-> {}]}

\* The runs with two session objects alive in one request: one id, ttl
\* enabled, the operator may call MaxAge, the clock stands still.
EnvironmentsTwoSessions ==
    {[ids |-> {"a"}, ticks |-> 0, ttl |-> {DefaultTTLEnabled}, handles |-> Handles,
      storeAges |-> StoreAges]}

\* The runs in which the operator gives MaxAge an age shorter than a step of
\* the clock, 0 or a negative one: one id, ttl enabled, one step of the clock.
StoreAgesShort == {-1, 0, 3600}

EnvironmentsMaxAge ==
    {[ids |-> {"a"}, ticks |-> 1, ttl |-> {DefaultTTLEnabled}, handles |-> {1},
      storeAges |-> StoreAgesShort]}

\* The runs in which the Saves of two requests interleave: one id, ttl
\* enabled, one step of the clock.
EnvironmentsConcurrent ==
    {[ids |-> {"a"}, ticks |-> 1, ttl |-> {DefaultTTLEnabled}, handles |-> Handles,
      storeAges |-> {}]}

\* The runs of the constructor alone: one bag and one size of int each.
EnvironmentsConfig ==
    {[ids |-> {}, ticks |-> 0, ttl |-> {}, handles |-> {}, storeAges |-> {},
      config |-> c, bits |-> b] : c \in Configs, b \in IntSizes}

\* The runs of the constructor on one DynamoDB: the bags give the table, the
\* read capacity and the ttl flag, or leave them out.
BootstrapConfigs ==
    {[EmptyConfig EXCEPT !["table"] = t, !["read_capacity"] = r, !["ttl_enabled"] = e] :
        t \in {Missing, VString("x")}, r \in {Missing, VInt64(Num(7))},
        e \in {Missing, VBool(FALSE)}}

EnvironmentsBootstrap ==
    {[ids |-> {}, ticks |-> 0, ttl |-> {}, handles |-> {}, storeAges |-> {},
      configs |-> BootstrapConfigs, bits |-> 64]}

VARIABLES now, table, putLog, storeMaxAge, codecMaxAge, ttlEnabled,
          sess, req, last, env, saving, tables

vars == <<now, table, putLog, storeMaxAge, codecMaxAge, ttlEnabled,
          sess, req, last, env, saving, tables>>

(***************************************************************************)
(* securecookie: an encoded value is the payload, the timestamp of its     *)
(* encoding and a MAC.  The empty string has no MAC.                       *)
(***************************************************************************)
BlankCookie == [payload |-> "", ts |-> 0, mac |-> FALSE]
BlankData == [payload |-> EmptyValues, ts |-> 0, mac |-> FALSE]

EncodeMulti(payload, t, fail, blank) ==
    IF fail
    THEN [err |-> "encode", out |-> blank]
    ELSE [err |-> "", out |-> [payload |-> payload, ts |-> t, mac |-> TRUE]]

DecodeMulti(enc, t, maxAge, zero) ==
    IF ~enc.mac
    THEN [err |-> "mac", payload |-> zero]
    ELSE IF maxAge # 0 /\ enc.ts < t - maxAge
    THEN [err |-> "expired", payload |-> zero]
    ELSE [err |-> "", payload |-> enc.payload]

\* A client that flips a byte of a cookie it holds.
Tamper(c) == [c EXCEPT !.mac = FALSE]

(***************************************************************************)
(* The DynamoDB table: one item per id.  NoItem is what GetItem and        *)
(* UnmarshalMap give for a key that has no item: the zero Session.         *)
(***************************************************************************)
NoItem == [present |-> FALSE, data |-> BlankData, modifiedAt |-> 0, ttl |-> 0]

GetItem(tbl, id) == IF id \in DOMAIN tbl THEN tbl[id] ELSE NoItem

\* A PutItem under the condition that the key has no item.
PutItemIfAbsent(tbl, id, item) ==
    IF id \in DOMAIN tbl /\ ~tbl[id].present THEN [tbl EXCEPT ![id] = item] ELSE tbl

PutItem(tbl, id, item) == IF id \in DOMAIN tbl THEN [tbl EXCEPT ![id] = item] ELSE tbl

DeleteItem(tbl, id) == IF id \in DOMAIN tbl THEN [tbl EXCEPT ![id] = NoItem] ELSE tbl

\* The expiry test of load.
ExpiredNever(item, t) == FALSE

ExpiredAtOrBefore(item, t) == item.ttl > 0 /\ item.ttl <= t

Expired(item, t) == item.ttl > 0 /\ item.ttl < t

\* DynamoStore.load: the error and the values it leaves in the session.
loadNoValues(tbl, id, t, cmax, fault) ==
    IF fault = "get"
    THEN [err |-> "storage", values |-> EmptyValues]
    ELSE LET sessionObj == GetItem(tbl, id)
         IN  IF Expired(sessionObj, t)
             THEN [err |-> "notfound", values |-> EmptyValues]
             ELSE [err |-> DecodeMulti(sessionObj.data, t, cmax, EmptyValues).err,
                   values |-> EmptyValues]

load(tbl, id, t, cmax, fault) ==
    IF fault = "get"
    THEN [err |-> "storage", values |-> EmptyValues]
    ELSE LET sessionObj == GetItem(tbl, id)
         IN  IF Expired(sessionObj, t)
             THEN [err |-> "notfound", values |-> EmptyValues]
             ELSE LET d == DecodeMulti(sessionObj.data, t, cmax, EmptyValues)
                  IN  [err |-> d.err, values |-> d.payload]

\* The item save builds for the session: its data, the time and the ttl.
SessionObjAlwaysTTL(s, data, t, ttlOn) ==
    [present |-> TRUE, data |-> data, modifiedAt |-> t, ttl |-> t + s.MaxAge]

SessionObj(s, data, t, ttlOn) ==
    [present |-> TRUE,
     data |-> data,
     modifiedAt |-> t,
     ttl |-> IF ttlOn /\ s.MaxAge > 0 THEN t + s.MaxAge ELSE 0]

\* DynamoStore.save: the error and the table it leaves.
saveSkipsPut(tbl, s, t, ttlOn, fault) ==
    IF fault = "encode"
    THEN [err |-> "encode", table |-> tbl]
    ELSE [err |-> IF fault = "put" THEN "storage" ELSE "", table |-> tbl]

saveDropsErr(tbl, s, t, ttlOn, fault) ==
    LET e == EncodeMulti(s.Values, t, fault = "encode", BlankData)
        sessionObj == SessionObj(s, e.out, t, ttlOn)
    IN  IF e.err # "" \/ fault = "put"
        THEN [err |-> "", table |-> tbl]
        ELSE [err |-> "", table |-> PutItem(tbl, s.ID, sessionObj)]

save(tbl, s, t, ttlOn, fault) ==
    LET e == EncodeMulti(s.Values, t, fault = "encode", BlankData)
        sessionObj == SessionObj(s, e.out, t, ttlOn)
    IN  IF e.err # ""
        THEN [err |-> e.err, table |-> tbl]
        ELSE IF fault = "put"
        THEN [err |-> "storage", table |-> tbl]
        ELSE [err |-> "", table |-> PutItem(tbl, s.ID, sessionObj)]

\* DynamoStore.delete: the error and the table it leaves.
deleteKeeps(tbl, s, fault) ==
    [err |-> IF fault = "delete" THEN "storage" ELSE "", table |-> tbl]

deleteMustExist(tbl, s, fault) ==
    IF fault = "delete" \/ ~GetItem(tbl, s.ID).present
    THEN [err |-> "storage", table |-> tbl]
    ELSE [err |-> "", table |-> DeleteItem(tbl, s.ID)]

deleteDropsErr(tbl, s, fault) ==
    IF fault = "delete"
    THEN [err |-> "", table |-> tbl]
    ELSE [err |-> "", table |-> DeleteItem(tbl, s.ID)]

delete(tbl, s, fault) ==
    IF fault = "delete"
    THEN [err |-> "storage", table |-> tbl]
    ELSE [err |-> "", table |-> DeleteItem(tbl, s.ID)]

(***************************************************************************)
(* Sessions and the request in flight.                                     *)
(***************************************************************************)
\* A free slot: no session object lives there.
NoSession == [live |-> FALSE, ID |-> "", Values |-> EmptyValues, IsNew |-> FALSE, MaxAge |-> 0]

\* The slot a new session object takes: the first free one.
FreeSlot(ss, h) == ~ss[h].live /\ \A g \in DOMAIN ss : g < h => ss[g].live

NoRequestCookie == [hasCookie |-> FALSE, cookie |-> BlankCookie]

\* A request has the cookie the client sent under the session name, and the
\* registry of gorilla/sessions: the session registered under the name (0 for
\* none) and the error registered with it.
FreshRequest(c) == [hasCookie |-> c.hasCookie, cookie |-> c.cookie, reg |-> 0, regErr |-> ""]

NoSetCookie == [set |-> FALSE, value |-> BlankCookie, maxAge |-> 0]

\* The history of an id: "saved" after the PutItem of a Save that returned nil
\* ("put" if that Save returned an error after it), with the values saved, the
\* time and the ttl; "deleted" after the DeleteItem of a Save; "swept" after
\* the expiry sweep removed its item.
NoPut == [status |-> "never", values |-> EmptyValues, modifiedAt |-> 0, ttl |-> 0]

LogPut(log, id, item, values, ok) ==
    IF id \in DOMAIN log
    THEN [log EXCEPT ![id] = [status |-> IF ok THEN "saved" ELSE "put", values |-> values,
                              modifiedAt |-> item.modifiedAt, ttl |-> item.ttl]]
    ELSE log

LogRemove(log, id, how) ==
    IF id \in DOMAIN log THEN [log EXCEPT ![id] = [NoPut EXCEPT !.status = how]] ELSE log

\* A Save in progress on a session object, for the runs in which the Saves of
\* two requests interleave: where it is ("idle" for none, "encoded" after
\* s.save built the item, "put" after its PutItem), the session and the table
\* as Save found them, and the item.
NotSaving == [pc |-> "idle", pre |-> NoSession, item |-> NoItem,
              tableBefore |-> [i \in IDs |-> NoItem]]

\* The last call of the store: what it was given, what it found and returned.
NoLast == [op |-> "none", h |-> 0, err |-> "", hit |-> FALSE, fault |-> "none",
           hadCookie |-> FALSE, decodeErr |-> "", loadErr |-> "", loadRan |-> FALSE,
           cookie |-> BlankCookie, item |-> NoItem, setCookie |-> NoSetCookie,
           pre |-> NoSession, tableBefore |-> [i \in IDs |-> NoItem],
           store |-> NoStore, wanted |-> NoStore, bootFault |-> "none",
           calls |-> <<>>, tablesBefore |-> NoTables]

\* What the client can send under the session name with its next request:
\* nothing, the empty value, the cookie it sent before, that cookie with a
\* byte flipped, or the cookie that the response of the Save just made set.
ClientCookies ==
    {NoRequestCookie, [hasCookie |-> TRUE, cookie |-> BlankCookie]}
    \cup (IF req.hasCookie
          THEN {[hasCookie |-> TRUE, cookie |-> c] : c \in {req.cookie, Tamper(req.cookie)}}
          ELSE {})
    \cup (IF last.op = "Save" /\ last.setCookie.set
          THEN {[hasCookie |-> TRUE, cookie |-> last.setCookie.value]}
          ELSE {})

\* The session New starts from: sessions.NewSession, a copy of the store's
\* options, IsNew set.
FreshSessionUnset(opts) ==
    [live |-> TRUE, ID |-> "", Values |-> EmptyValues, IsNew |-> FALSE, MaxAge |-> opts]

FreshSessionDefaultAge(opts) ==
    [live |-> TRUE, ID |-> "", Values |-> EmptyValues, IsNew |-> TRUE, MaxAge |-> DefaultMaxAge]

FreshSession(opts) ==
    [live |-> TRUE, ID |-> "", Values |-> EmptyValues, IsNew |-> TRUE, MaxAge |-> opts]

\* The error New returns, given the error of decoding the cookie and the error
\* of load ("" for none): a load error is dropped.
ReturnedErrSwallowed(decodeErr, loadErr) == ""

ReturnedErrWithLoad(decodeErr, loadErr) == IF decodeErr # "" THEN decodeErr ELSE loadErr

ReturnedErr(decodeErr, loadErr) == IF decodeErr # "" THEN decodeErr ELSE ""

\* DynamoStore.New: the session it returns and its error.
NewResultDropsID(rq, tbl, t, opts, cmax, fault) ==
    LET fresh == FreshSession(opts)
    IN  IF ~rq.hasCookie
        THEN [session |-> fresh, err |-> "", decodeErr |-> "", loadErr |-> "", loadRan |-> FALSE]
        ELSE LET d == DecodeMulti(rq.cookie, t, cmax, "")
             IN  IF d.err # ""
                 THEN [session |-> fresh, err |-> ReturnedErr(d.err, ""), decodeErr |-> d.err,
                       loadErr |-> "", loadRan |-> FALSE]
                 ELSE LET l == load(tbl, d.payload, t, cmax, fault)
                      IN  [session |-> [fresh EXCEPT !.ID = IF l.err = "" THEN d.payload ELSE @,
                                                     !.Values = l.values,
                                                     !.IsNew = IF l.err = "" THEN FALSE ELSE @],
                           err |-> ReturnedErr("", l.err), decodeErr |-> "",
                           loadErr |-> l.err, loadRan |-> TRUE]

NewResult(rq, tbl, t, opts, cmax, fault) ==
    LET fresh == FreshSession(opts)
    IN  IF ~rq.hasCookie
        THEN [session |-> fresh, err |-> "", decodeErr |-> "", loadErr |-> "", loadRan |-> FALSE]
        ELSE LET d == DecodeMulti(rq.cookie, t, cmax, "")
             IN  IF d.err # ""
                 THEN [session |-> fresh, err |-> ReturnedErr(d.err, ""), decodeErr |-> d.err,
                       loadErr |-> "", loadRan |-> FALSE]
                 ELSE LET l == load(tbl, d.payload, t, cmax, fault)
                      IN  [session |-> [fresh EXCEPT !.ID = d.payload,
                                                     !.Values = l.values,
                                                     !.IsNew = IF l.err = "" THEN FALSE ELSE @],
                           err |-> ReturnedErr("", l.err), decodeErr |-> "",
                           loadErr |-> l.err, loadRan |-> TRUE]

\* What New and Get leave in last.
ReadLast(op, h, res, fault) ==
    [NoLast EXCEPT !.op = op, !.h = h, !.err = res.err,
                   !.fault = IF res.loadRan THEN fault ELSE "none",
                   !.hadCookie = req.hasCookie,
                   !.cookie = req.cookie,
                   !.decodeErr = res.decodeErr,
                   !.loadErr = res.loadErr,
                   !.loadRan = res.loadRan,
                   !.item = IF res.loadRan /\ fault # "get"
                            THEN GetItem(table, res.session.ID) ELSE NoItem,
                   !.tableBefore = table]

\* The bag that gives max_age and ttl_enabled and nothing else.
ConfigOf(age, ttl) ==
    [EmptyConfig EXCEPT !["max_age"] = VInt64(Num(age)), !["ttl_enabled"] = VBool(ttl)]

InitIn(envs) ==
    /\ env \in envs
    /\ now = TickStep
    /\ table = [i \in IDs |-> NoItem]
    /\ putLog = [i \in IDs |-> NoPut]
    /\ \E cfg \in ConfigAges, ttl \in env.ttl, bits \in IntSizes :
          LET built == NewDynamoStore(ConfigOf(cfg, ttl), bits, "none")
          IN  /\ storeMaxAge = IntValue(built.store.MaxAge)
              /\ ttlEnabled = built.store.ttlEnabled
              /\ tables = createTableIfNotExists(NoTables, built.store.table,
                                                 built.store.readCapacity,
                                                 built.store.writeCapacity,
                                                 built.store.ttlEnabled, "none").tables
    /\ codecMaxAge = CodecDefaultMaxAge
    /\ sess = [h \in Handles |-> NoSession]
    /\ req = FreshRequest(NoRequestCookie)
    /\ last = NoLast
    /\ saving = [h \in Handles |-> NotSaving]

Init == InitIn(Environments)

InitTwoSessions == InitIn(EnvironmentsTwoSessions)

InitMaxAge == InitIn(EnvironmentsMaxAge)

InitConcurrent == InitIn(EnvironmentsConcurrent)

\* Before the constructor ran: no store yet.
InitConfig ==
    /\ env \in EnvironmentsConfig
    /\ now = TickStep
    /\ table = [i \in IDs |-> NoItem]
    /\ putLog = [i \in IDs |-> NoPut]
    /\ storeMaxAge = 0
    /\ codecMaxAge = 0
    /\ ttlEnabled = FALSE
    /\ sess = [h \in Handles |-> NoSession]
    /\ req = FreshRequest(NoRequestCookie)
    /\ last = NoLast
    /\ saving = [h \in Handles |-> NotSaving]
    /\ tables = NoTables

\* Before any constructor ran, on a DynamoDB without tables.
InitBootstrap ==
    /\ env \in EnvironmentsBootstrap
    /\ now = TickStep
    /\ table = [i \in IDs |-> NoItem]
    /\ putLog = [i \in IDs |-> NoPut]
    /\ storeMaxAge = 0
    /\ codecMaxAge = 0
    /\ ttlEnabled = FALSE
    /\ sess = [h \in Handles |-> NoSession]
    /\ req = FreshRequest(NoRequestCookie)
    /\ last = NoLast
    /\ saving = [h \in Handles |-> NotSaving]
    /\ tables = NoTables

\* NewDynamoStore(config, keyPairs...) is called, on a build with ints of the
\* size bits: the options it reads from the bag, the AWS session, the bootstrap
\* of the table with those options, and the store or the error.  fault is the
\* call that fails if it is issued.
ConstructWith(config, bits, fault) ==
    LET wanted == NewDynamoStore(config, bits, "none").store
        boot == IF fault = "session"
                THEN [err |-> "session", tables |-> tables, calls |-> <<>>]
                ELSE createTableIfNotExists(tables, wanted.table, wanted.readCapacity,
                                            wanted.writeCapacity, wanted.ttlEnabled, fault)
        failed == IF fault = "session" THEN "session"
                  ELSE IF boot.err # "" THEN "bootstrap" ELSE "none"
        built == NewDynamoStore(config, bits, failed)
    IN  /\ tables' = boot.tables
        /\ last' = [NoLast EXCEPT !.op = "NewDynamoStore", !.err = built.err,
                                  !.fault = failed, !.store = built.store,
                                  !.wanted = wanted, !.bootFault = fault,
                                  !.calls = boot.calls, !.tablesBefore = tables]
        /\ UNCHANGED <<now, table, putLog, storeMaxAge, codecMaxAge, ttlEnabled, sess, req, env, saving>>

\* The one call of the constructor with the bag of the run; a bootstrap that
\* fails does so at DescribeTable.
Construct(fault) ==
    /\ last.op = "none"
    /\ ConstructWith(env.config, env.bits, IF fault = "bootstrap" THEN "describe" ELSE fault)

\* The clock advances.
Tick ==
    /\ now < TickStep * (env.ticks + 1)
    /\ now' = now + TickStep
    /\ last' = NoLast
    /\ UNCHANGED <<table, putLog, storeMaxAge, codecMaxAge, ttlEnabled, sess, req, env, saving, tables>>

\* The next request arrives; the sessions of the request before it are gone.
Request(c) ==
    /\ req' = FreshRequest(c)
    /\ sess' = [h \in Handles |-> NoSession]
    /\ last' = NoLast
    /\ UNCHANGED <<now, table, putLog, storeMaxAge, codecMaxAge, ttlEnabled, env, saving, tables>>

\* store.New(r, name), its session placed in the free slot h.
NewPurges(h, fault) ==
    /\ FreeSlot(sess, h)
    /\ LET res == NewResult(req, table, now, storeMaxAge, codecMaxAge, fault)
       IN  /\ sess' = [sess EXCEPT ![h] = res.session]
           /\ last' = ReadLast("New", h, res, fault)
           /\ table' = IF res.loadRan /\ res.loadErr = "notfound"
                        THEN DeleteItem(table, res.session.ID) ELSE table
    /\ UNCHANGED <<now, putLog, storeMaxAge, codecMaxAge, ttlEnabled, req, env, saving, tables>>

New(h, fault) ==
    /\ FreeSlot(sess, h)
    /\ LET res == NewResult(req, table, now, storeMaxAge, codecMaxAge, fault)
       IN  /\ sess' = [sess EXCEPT ![h] = res.session]
           /\ last' = ReadLast("New", h, res, fault)
    /\ UNCHANGED <<now, table, putLog, storeMaxAge, codecMaxAge, ttlEnabled, req, env, saving, tables>>

\* A Get that runs New whether or not a session is registered.
GetAlwaysNew(h, fault) ==
    /\ FreeSlot(sess, h)
    /\ LET res == NewResult(req, table, now, storeMaxAge, codecMaxAge, fault)
       IN  /\ sess' = [sess EXCEPT ![h] = res.session]
           /\ req' = [req EXCEPT !.reg = h, !.regErr = res.err]
           /\ last' = ReadLast("Get", h, res, fault)
    /\ UNCHANGED <<now, table, putLog, storeMaxAge, codecMaxAge, ttlEnabled, env, saving, tables>>

\* store.Get(r, name): the registry returns the session registered under the
\* name with its error, or else runs New and registers what it returns.
Get(h, fault) ==
    /\ IF req.reg # 0
       THEN /\ h = req.reg
            /\ fault = "none"
            /\ last' = [NoLast EXCEPT !.op = "Get", !.h = h, !.err = req.regErr,
                                      !.hit = TRUE,
                                      !.hadCookie = req.hasCookie,
                                      !.cookie = req.cookie,
                                      !.tableBefore = table]
            /\ UNCHANGED <<sess, req>>
       ELSE /\ FreeSlot(sess, h)
            /\ LET res == NewResult(req, table, now, storeMaxAge, codecMaxAge, fault)
               IN  /\ sess' = [sess EXCEPT ![h] = res.session]
                   /\ req' = [req EXCEPT !.reg = h, !.regErr = res.err]
                   /\ last' = ReadLast("Get", h, res, fault)
    /\ UNCHANGED <<now, table, putLog, storeMaxAge, codecMaxAge, ttlEnabled, env, saving, tables>>

\* The application writes session.Values.
SetValues(h, v) ==
    /\ sess[h].live
    /\ sess[h].Values # v
    /\ sess' = [sess EXCEPT ![h].Values = v]
    /\ last' = NoLast
    /\ UNCHANGED <<now, table, putLog, storeMaxAge, codecMaxAge, ttlEnabled, req, env, saving, tables>>

\* The application writes session.Options.MaxAge.
SetOptionsMaxAge(h, age) ==
    /\ sess[h].live
    /\ sess[h].MaxAge # age
    /\ sess' = [sess EXCEPT ![h].MaxAge = age]
    /\ last' = NoLast
    /\ UNCHANGED <<now, table, putLog, storeMaxAge, codecMaxAge, ttlEnabled, req, env, saving, tables>>

\* DynamoStore.Save on the path of a MaxAge <= 0.
SaveDelete(h, fault) ==
    LET s == sess[h]
        d == delete(table, s, fault)
    IN  /\ table' = d.table
        /\ putLog' = IF d.err = "" THEN LogRemove(putLog, s.ID, "deleted") ELSE putLog
        /\ last' = [NoLast EXCEPT !.op = "Save", !.h = h, !.err = d.err,
                                  !.fault = fault, !.pre = s, !.tableBefore = table,
                                  !.setCookie = IF d.err = ""
                                                THEN [set |-> TRUE, value |-> BlankCookie,
                                                      maxAge |-> s.MaxAge]
                                                ELSE NoSetCookie]
        /\ UNCHANGED sess

\* The id Save gives the session: a random key when it has none.
SessionIDRedrawn(s, newid) == IF s.ID = "" THEN newid ELSE CHOOSE i \in IDs : i # s.ID

SessionID(s, newid) == IF s.ID = "" THEN newid ELSE s.ID

\* The session object as Save leaves it: only the id is written.
AfterSaveNotNew(s, newid) == [s EXCEPT !.ID = SessionID(s, newid), !.IsNew = FALSE]

AfterSave(s, newid) == [s EXCEPT !.ID = SessionID(s, newid)]

\* DynamoStore.Save on the path of a MaxAge > 0.
SavePutRollsBack(h, newid, fault) ==
    LET s == sess[h]
        withID == AfterSave(s, newid)
        w == save(table, withID, now, ttlEnabled, fault)
        c == EncodeMulti(withID.ID, now, fault = "cookie", BlankCookie)
        err == IF w.err # "" THEN w.err ELSE c.err
    IN  /\ sess' = [sess EXCEPT ![h] = withID]
        /\ table' = IF err = "" THEN w.table ELSE table
        /\ putLog' = IF err = ""
                     THEN LogPut(putLog, withID.ID, GetItem(w.table, withID.ID),
                                 withID.Values, TRUE)
                     ELSE putLog
        /\ last' = [NoLast EXCEPT !.op = "Save", !.h = h, !.err = err,
                                  !.fault = fault, !.pre = s, !.tableBefore = table,
                                  !.setCookie = IF err = ""
                                                THEN [set |-> TRUE, value |-> c.out,
                                                      maxAge |-> s.MaxAge]
                                                ELSE NoSetCookie]

SavePut(h, newid, fault) ==
    LET s == sess[h]
        withID == AfterSave(s, newid)
        w == save(table, withID, now, ttlEnabled, fault)
        c == EncodeMulti(withID.ID, now, fault = "cookie", BlankCookie)
        err == IF w.err # "" THEN w.err ELSE c.err
    IN  /\ sess' = [sess EXCEPT ![h] = withID]
        /\ table' = w.table
        /\ putLog' = IF w.err = ""
                     THEN LogPut(putLog, withID.ID, GetItem(w.table, withID.ID),
                                 withID.Values, err = "")
                     ELSE putLog
        /\ last' = [NoLast EXCEPT !.op = "Save", !.h = h, !.err = err,
                                  !.fault = fault, !.pre = s, !.tableBefore = table,
                                  !.setCookie = IF err = ""
                                                THEN [set |-> TRUE, value |-> c.out,
                                                      maxAge |-> s.MaxAge]
                                                ELSE NoSetCookie]

\* DynamoStore.Save.  newid is the random key that Save draws when the session
\* has no id ("" when it draws none).
Save(h, newid, fault) ==
    /\ sess[h].live
    /\ IF sess[h].MaxAge <= 0
       THEN /\ newid = ""
            /\ fault \in {"none", "delete"}
            /\ SaveDelete(h, fault)
       ELSE /\ newid = "" <=> sess[h].ID # ""
            /\ fault \in {"none", "encode", "put", "cookie"}
            /\ SavePut(h, newid, fault)
    /\ UNCHANGED <<now, storeMaxAge, codecMaxAge, ttlEnabled, req, env, saving, tables>>

\* A MaxAge that leaves the codecs alone.
MaxAgeStoreOnly(age) ==
    /\ storeMaxAge # age
    /\ storeMaxAge' = age
    /\ last' = NoLast
    /\ UNCHANGED <<now, table, putLog, codecMaxAge, ttlEnabled, sess, req, env, saving, tables>>

\* Save, on the path of a MaxAge > 0, as the steps that Saves of other requests
\* interleave with.  First: the id, the encoding of the values and the item.
SaveEncode(h, newid) ==
    LET s == sess[h]
        withID == AfterSave(s, newid)
        e == EncodeMulti(withID.Values, now, FALSE, BlankData)
    IN  /\ s.live
        /\ s.MaxAge > 0
        /\ saving[h].pc = "idle"
        /\ newid = "" <=> s.ID # ""
        /\ sess' = [sess EXCEPT ![h] = withID]
        /\ saving' = [saving EXCEPT ![h] = [pc |-> "encoded", pre |-> s,
                                            item |-> SessionObj(withID, e.out, now, ttlEnabled),
                                            tableBefore |-> table]]
        /\ last' = NoLast
        /\ UNCHANGED <<now, table, putLog, storeMaxAge, codecMaxAge, ttlEnabled, req, env, tables>>

\* Second: the PutItem.  When it fails Save returns its error.
SavePutItem(h, fault) ==
    /\ saving[h].pc = "encoded"
    /\ IF fault = "put"
       THEN /\ saving' = [saving EXCEPT ![h] = NotSaving]
            /\ last' = [NoLast EXCEPT !.op = "Save", !.h = h, !.err = "storage",
                                      !.fault = fault, !.pre = saving[h].pre,
                                      !.tableBefore = saving[h].tableBefore]
            /\ UNCHANGED <<table, putLog>>
       ELSE /\ table' = PutItem(table, sess[h].ID, saving[h].item)
            /\ putLog' = LogPut(putLog, sess[h].ID, saving[h].item,
                                saving[h].item.data.payload, TRUE)
            /\ saving' = [saving EXCEPT ![h].pc = "put"]
            /\ last' = NoLast
    /\ UNCHANGED <<now, storeMaxAge, codecMaxAge, ttlEnabled, sess, req, env, tables>>

\* Third: the cookie, and Save returns nil.
SaveCookie(h) ==
    /\ saving[h].pc = "put"
    /\ LET c == EncodeMulti(sess[h].ID, now, FALSE, BlankCookie)
       IN  last' = [NoLast EXCEPT !.op = "Save", !.h = h, !.err = c.err,
                                  !.pre = saving[h].pre,
                                  !.tableBefore = saving[h].tableBefore,
                                  !.setCookie = [set |-> TRUE, value |-> c.out,
                                                 maxAge |-> saving[h].pre.MaxAge]]
    /\ saving' = [saving EXCEPT ![h] = NotSaving]
    /\ UNCHANGED <<now, table, putLog, storeMaxAge, codecMaxAge, ttlEnabled, sess, req, env, tables>>

\* DynamoStore.MaxAge.
MaxAge(age) ==
    /\ storeMaxAge # age \/ codecMaxAge # age
    /\ storeMaxAge' = age
    /\ codecMaxAge' = age
    /\ last' = NoLast
    /\ UNCHANGED <<now, table, putLog, ttlEnabled, sess, req, env, saving, tables>>

\* DynamoDB's expiry sweep removes an item whose ttl attribute is in the past.
Purge(id) ==
    /\ table[id].present
    /\ Expired(table[id], now)
    /\ table' = [table EXCEPT ![id] = NoItem]
    /\ putLog' = LogRemove(putLog, id, "swept")
    /\ last' = NoLast
    /\ UNCHANGED <<now, storeMaxAge, codecMaxAge, ttlEnabled, sess, req, env, saving, tables>>

Next ==
    \/ Tick
    \/ \E c \in ClientCookies : Request(c)
    \/ \E h \in env.handles, f \in {"none", "get"} : New(h, f)
    \/ \E h \in env.handles, f \in {"none", "get"} : Get(h, f)
    \/ \E h \in env.handles, v \in ValueMaps : SetValues(h, v)
    \/ \E h \in env.handles, a \in SessionAges : SetOptionsMaxAge(h, a)
    \/ \E h \in env.handles, i \in env.ids \cup {""}, f \in Faults : Save(h, i, f)
    \/ \E a \in env.storeAges : MaxAge(a)
    \/ \E i \in IDs : Purge(i)

Spec == Init /\ [][Next]_vars

\* The calls of the store and of the application while the clock stands still.
NextTwoSessions ==
    \/ \E c \in ClientCookies : Request(c)
    \/ \E h \in env.handles, f \in {"none", "get"} : New(h, f)
    \/ \E h \in env.handles, f \in {"none", "get"} : Get(h, f)
    \/ \E h \in env.handles, v \in ValueMaps : SetValues(h, v)
    \/ \E h \in env.handles, a \in SessionAges : SetOptionsMaxAge(h, a)
    \/ \E h \in env.handles, i \in env.ids \cup {""}, f \in Faults : Save(h, i, f)
    \/ \E a \in env.storeAges : MaxAge(a)

\* Two requests run at once, each with its session object: the calls of a
\* request wait while its Save is in progress, and no request ends before its
\* Save has returned.
Idle(h) == saving[h].pc = "idle"

NextConcurrent ==
    \/ Tick
    \/ \E c \in ClientCookies : (\A h \in Handles : Idle(h)) /\ Request(c)
    \/ \E h \in env.handles : Idle(h) /\ New(h, "none")
    \/ \E h \in env.handles, v \in ValueMaps : Idle(h) /\ SetValues(h, v)
    \/ \E h \in env.handles, i \in env.ids \cup {""} : SaveEncode(h, i)
    \/ \E h \in env.handles, f \in {"none", "put"} : SavePutItem(h, f)
    \/ \E h \in env.handles : SaveCookie(h)

SpecConcurrent == InitConcurrent /\ [][NextConcurrent]_vars

SpecMaxAge == InitMaxAge /\ [][Next]_vars

NextConfig == \E f \in ConstructionFaults : Construct(f)

SpecConfig == InitConfig /\ [][NextConfig]_vars

\* The constructor is called again and again, with the bags of
\* EnvironmentsBootstrap, on the same DynamoDB.
NextBootstrap ==
    \E c \in env.configs, f \in BootstrapFaults \cup {"session"} :
        ConstructWith(c, env.bits, f)

SpecBootstrap == InitBootstrap /\ [][NextBootstrap]_vars

SpecTwoSessions == InitTwoSessions /\ [][NextTwoSessions]_vars

(***************************************************************************)
(* The claims.  In a state that a call of the store has just produced,     *)
(* last.op names the call and Returned is the session it returned or was   *)
(* given.                                                                  *)
(***************************************************************************)
Returned == sess[last.h]

IsRead == last.op \in {"New", "Get"}

\* The age ceiling of the codec lets a value encoded at ts decode now.
WithinCeiling(ts) == codecMaxAge = 0 \/ ts >= now - codecMaxAge

\* New, or a Get that finds no session registered and runs New, ran on a
\* request that carries the cookie issued by a Save that returned nil, no
\* PutItem or DeleteItem of a Save ran on that id since, the ttl has not
\* passed, and the read of the storage did not fail.
RoundTripCase ==
    /\ IsRead
    /\ ~last.hit
    /\ last.hadCookie
    /\ last.cookie.mac
    /\ last.fault = "none"
    /\ putLog[last.cookie.payload].status = "saved"
    /\ putLog[last.cookie.payload].modifiedAt = last.cookie.ts
    /\ ~(putLog[last.cookie.payload].ttl > 0 /\ putLog[last.cookie.payload].ttl < now)

RoundTripResult ==
    /\ ~Returned.IsNew
    /\ last.err = ""
    /\ Returned.Values = putLog[last.cookie.payload].values

\* C1 as stated: after a Save with MaxAge > 0 that succeeded, a New or Get on a
\* request carrying the cookie it issued, with no save or delete of the id in
\* between and before the ttl passes, returns IsNew = false, a nil error and
\* the values saved.
C1_Original == RoundTripCase => RoundTripResult

\* C1 as amended: the same, as long as the cookie and the stored payload are
\* not older than the age ceiling of the codecs.
C1_RoundTrip == (RoundTripCase /\ WithinCeiling(last.cookie.ts)) => RoundTripResult

C1_Witness ==
    /\ RoundTripCase
    /\ WithinCeiling(last.cookie.ts)
    /\ Returned.Values # EmptyValues
    /\ now > last.cookie.ts

\* New, or the New that Get runs, found a cookie that does not decode.
DecodeFailCase == IsRead /\ ~last.hit /\ last.hadCookie /\ last.decodeErr # ""

\* C2 as stated: a cookie that fails to decode gives a session with IsNew = true
\* and empty Values together with a nil error, and New and Get never return a
\* non-nil error.
C2_Original ==
    /\ IsRead => last.err = ""
    /\ DecodeFailCase => Returned.IsNew /\ Returned.Values = EmptyValues

\* C2 as amended: a cookie that fails to decode gives a session with IsNew =
\* true, empty Values and no id together with the decode error; a decode error
\* is the only error New and Get return, and Get returns it again on every
\* later call with that request.
C2_DecodeErrorReturned ==
    /\ DecodeFailCase =>
          /\ Returned.IsNew
          /\ Returned.Values = EmptyValues
          /\ Returned.ID = ""
          /\ last.err = last.decodeErr
    /\ (IsRead /\ ~last.hit /\ last.err # "") => DecodeFailCase
    /\ (IsRead /\ last.hit) => last.err = req.regErr
    /\ (last.op = "Get" /\ ~last.hit) => req.regErr = last.err

C2_Witness == DecodeFailCase /\ last.cookie # BlankCookie /\ last.err # ""

\* The cookie decoded to an id and load failed.
LoadFailCase == IsRead /\ ~last.hit /\ last.loadRan /\ last.loadErr # ""

\* C3: when the cookie decodes to an id and load fails, for whatever reason, New
\* and Get return a nil error and a session with IsNew = true and empty Values.
C3_LoadFailureAbsorbed ==
    LoadFailCase => last.err = "" /\ Returned.IsNew /\ Returned.Values = EmptyValues

C3_Witness ==
    /\ LoadFailCase
    /\ last.loadErr = "storage"
    /\ table[Returned.ID].present
    /\ table[Returned.ID].data.payload # EmptyValues

\* C4: New on a request without a cookie under the session name returns a
\* session with IsNew = true, empty Values and a nil error, whatever the table
\* holds.
C4_NewWithoutCookie ==
    (last.op = "New" /\ ~last.hadCookie) =>
        Returned.IsNew /\ Returned.Values = EmptyValues /\ last.err = ""

C4_Witness ==
    /\ last.op = "New"
    /\ ~last.hadCookie
    /\ \E i \in IDs : table[i].present /\ table[i].data.payload # EmptyValues

\* A Save on the path of a MaxAge <= 0 returned nil.
DeleteDone == last.op = "Save" /\ last.pre.MaxAge <= 0 /\ last.err = ""

\* New, or a Get that finds no session registered and runs New, ran on a
\* request that carries a cookie issued for an id whose last write is the
\* DeleteItem of a Save.
DeletedCookieCase ==
    /\ IsRead
    /\ ~last.hit
    /\ last.hadCookie
    /\ last.cookie.mac
    /\ putLog[last.cookie.payload].status = "deleted"

\* C5: a Save with MaxAge <= 0 that succeeds removes the record of the
\* session's id and sets a cookie with the empty value and the session's
\* attributes; a New or Get on a request carrying the cookie issued before
\* returns IsNew = true until a Save with MaxAge > 0 writes that id again.
C5_Deletion ==
    /\ DeleteDone =>
          /\ ~GetItem(table, last.pre.ID).present
          /\ last.setCookie = [set |-> TRUE, value |-> BlankCookie,
                               maxAge |-> last.pre.MaxAge]
    /\ DeletedCookieCase => Returned.IsNew

C5_Witness == DeletedCookieCase /\ last.decodeErr = "" /\ last.fault = "none"

C7_ExpiredNeverLoaded ==
    /\ \A i \in IDs :
          (table[i].present /\ table[i].ttl # 0 /\ table[i].ttl < now) =>
              load(table, i, now, codecMaxAge, "none").err # ""
    /\ (IsRead /\ last.loadRan /\ last.item.present
        /\ last.item.ttl # 0 /\ last.item.ttl < now) =>
          last.loadErr # "" /\ Returned.IsNew /\ Returned.Values = EmptyValues

C7_Witness ==
    /\ IsRead
    /\ last.loadRan
    /\ last.item.present
    /\ last.item.ttl # 0
    /\ last.item.ttl < now
    /\ last.item.data.payload # EmptyValues
    /\ Returned.IsNew

\* load got a record that carries a ttl.
TTLCase == IsRead /\ last.loadRan /\ last.item.present /\ last.item.ttl > 0

\* C8 as stated: load treats a record whose ttl is at or before the current
\* time as not found, also at the instant now = ttl.
C8_Original == (TTLCase /\ last.item.ttl <= now) => last.loadErr = "notfound"

\* C8 as amended: load treats a record whose ttl is strictly before the current
\* time as not found; at the instant now = ttl it does not, and returns the
\* record if its payload decodes.
C8_ExpiryBoundary ==
    /\ (TTLCase /\ last.item.ttl < now) => last.loadErr = "notfound"
    /\ (TTLCase /\ last.item.ttl = now) =>
          /\ last.loadErr # "notfound"
          /\ WithinCeiling(last.item.modifiedAt) =>
                last.loadErr = "" /\ ~Returned.IsNew
                /\ Returned.Values = last.item.data.payload

C8_Witness == TTLCase /\ last.item.ttl = now /\ last.loadErr = "" /\ ~Returned.IsNew

\* load would succeed on the id now.
Loadable(i) == load(table, i, now, codecMaxAge, "none").err = ""

\* A Save with MaxAge > 0 wrote the id, no Save with MaxAge <= 0 deleted it
\* since, and the ttl written has not passed.
SavedAndAlive(i) ==
    /\ putLog[i].status \in {"saved", "put"}
    /\ ~(putLog[i].ttl > 0 /\ putLog[i].ttl < now)

\* C9 as stated: an id has a loadable record if and only if a session with that
\* id was saved with MaxAge > 0, no Save with MaxAge <= 0 ran on it since, and
\* the ttl of the record has not passed.
C9_Original == \A i \in IDs : Loadable(i) <=> SavedAndAlive(i)

\* C9 as amended: ... and the payload of the record is not older than the age
\* ceiling of the codecs.
C9_RecordExists ==
    \A i \in IDs : Loadable(i) <=> (SavedAndAlive(i) /\ WithinCeiling(putLog[i].modifiedAt))

C9_Witness ==
    \E i \in IDs : Loadable(i) /\ putLog[i].ttl > 0 /\ now = putLog[i].ttl

\* C10: Save draws an id only for a session that has none; a session that has
\* an id, also one loaded from its cookie, keeps it through every Save, which
\* writes no other key, adds no record beside its own and issues a cookie that
\* encodes the id.
C10_IdStable ==
    /\ (last.op = "Save" /\ last.pre.ID # "") => Returned.ID = last.pre.ID
    /\ (last.op = "Save" /\ last.pre.ID = "" /\ last.pre.MaxAge <= 0) => Returned.ID = ""
    /\ last.op = "Save" =>
          \A i \in IDs : i # Returned.ID => table[i] = last.tableBefore[i]
    /\ (last.op = "Save" /\ last.setCookie.set /\ last.pre.MaxAge > 0) =>
          /\ last.setCookie.value.mac
          /\ last.setCookie.value.payload = Returned.ID
          /\ table[Returned.ID].present
    /\ (IsRead /\ ~last.hit /\ last.hadCookie /\ last.decodeErr = "") =>
          Returned.ID = last.cookie.payload

C10_Witness ==
    /\ last.op = "Save"
    /\ last.pre.ID # ""
    /\ last.pre.MaxAge > 0
    /\ last.err = ""
    /\ last.tableBefore[last.pre.ID].present
    /\ last.tableBefore[last.pre.ID] # table[last.pre.ID]
    /\ \E i \in IDs : i # last.pre.ID /\ table[i].present

\* A Save on the path of a MaxAge > 0 whose EncodeMulti of the values or whose
\* PutItem failed.
SaveFailCase == last.op = "Save" /\ last.pre.MaxAge > 0 /\ last.fault \in {"encode", "put"}

\* C11: on the path of a MaxAge > 0, when encoding the values or the PutItem
\* fails, Save returns that error and sets no cookie; when encoding the values
\* fails, no PutItem is issued and the table is as it was.
C11_SaveFailureNoCookie ==
    /\ SaveFailCase =>
          /\ last.err = (IF last.fault = "encode" THEN "encode" ELSE "storage")
          /\ last.setCookie = NoSetCookie
    /\ (SaveFailCase /\ last.fault = "encode") => table = last.tableBefore

C11_Witness ==
    /\ SaveFailCase
    /\ last.fault = "encode"
    /\ last.pre.ID # ""
    /\ last.tableBefore[last.pre.ID].present
    /\ last.tableBefore[last.pre.ID].data.payload # last.pre.Values

\* A Save on the path of a MaxAge <= 0 whose DeleteItem failed.
DeleteFailCase == last.op = "Save" /\ last.pre.MaxAge <= 0 /\ last.fault = "delete"

\* C12: on the path of a MaxAge <= 0, when the DeleteItem fails, Save returns
\* that error, sets no cookie (the cookie of the client is not cleared) and the
\* record is as it was.
C12_DeleteFailure ==
    DeleteFailCase =>
        /\ last.err = "storage"
        /\ last.setCookie = NoSetCookie
        /\ table = last.tableBefore

C12_Witness ==
    /\ DeleteFailCase
    /\ req.hasCookie
    /\ req.cookie.mac
    /\ last.pre.ID = req.cookie.payload
    /\ table[last.pre.ID].present

\* The session object h lives through the step and its Options.MaxAge changes.
OptionsChange(h) == sess[h].live /\ sess'[h].live /\ sess'[h].MaxAge # sess[h].MaxAge

\* C13: MaxAge(age) makes every session that New, or a Get that runs New,
\* returns afterwards carry Options.MaxAge = age, and changes no session that
\* exists; a change of one session's Options.MaxAge changes neither the
\* Options of the store nor any other session.
C13_MaxAgeFrame ==
    /\ []((IsRead /\ ~last.hit) => Returned.MaxAge = storeMaxAge)
    /\ [][storeMaxAge' # storeMaxAge =>
            /\ sess' = sess
            /\ \E a \in StoreAges : storeMaxAge' = a]_vars
    /\ [][\A h \in Handles :
            OptionsChange(h) =>
                /\ storeMaxAge' = storeMaxAge
                /\ codecMaxAge' = codecMaxAge
                /\ \A g \in Handles \ {h} : sess'[g] = sess[g]]_vars

C13_Witness ==
    /\ last.op = "New"
    /\ storeMaxAge # DefaultMaxAge
    /\ Returned.MaxAge = storeMaxAge
    /\ \E g \in Handles \ {last.h} : sess[g].live /\ sess[g].MaxAge = DefaultMaxAge

\* NewDynamoStore has returned.
Built == last.op = "NewDynamoStore"

Given(k) == env.config[k]

\* A capacity is given a value that is no int64.
BadCapacity(k) == Given(k).kind \notin {"missing", "int64"}

WantedString(k, default) ==
    IF Given(k).kind = "string" /\ Given(k).s # "" THEN Given(k).s ELSE default

WantedInt64(k, default) ==
    IF Given(k).kind = "int64" /\ Positive(Given(k).n) THEN Given(k).n ELSE Num(default)

\* Every option but max_age has the value the claim gives it.
WantedOptions ==
    /\ last.store.table = WantedString("table", DefaultDynamoDBTableName)
    /\ last.store.region = WantedString("region", DefaultDynamoDBRegion)
    /\ last.store.endpoint = (IF Given("endpoint").kind = "string" THEN Given("endpoint").s ELSE "")
    /\ last.store.readCapacity = WantedInt64("read_capacity", DefaultDynamoDBReadCapacity)
    /\ last.store.writeCapacity = WantedInt64("write_capacity", DefaultDynamoDBWriteCapacity)
    /\ last.store.ttlEnabled =
          (IF Given("ttl_enabled").kind = "bool" THEN Given("ttl_enabled").b ELSE DefaultTTLEnabled)

\* C15 as stated: for every bag the constructor uses the default for a key that
\* is missing, of the wrong type, an empty string (table, region) or not
\* positive (capacities, max_age), never fails because of the bag, and the
\* store's Options.MaxAge is the max_age configured when that is a positive
\* int64 and 30 days otherwise.
C15_Original ==
    /\ (Built /\ last.fault = "none") =>
          /\ last.err = ""
          /\ WantedOptions
          /\ last.store.MaxAge = WantedInt64("max_age", DefaultMaxAge)
    /\ (Built /\ last.err # "") => last.fault # "none"

\* m is an int of 32 bits and equals n modulo 2^32.
Low32(m, n) ==
    /\ m.lo = n.lo
    /\ (m.hi - n.hi) % Half = 0
    /\ m.hi >= 0 - Half \div 2
    /\ m.hi < Half \div 2

\* What holds of C15: the same, with Options.MaxAge the conversion to int of
\* the max_age configured: that max_age where int has 64 bits or the value has
\* no more than 32, and its low 32 bits otherwise.
C15_EffectiveConfig ==
    /\ (Built /\ last.fault = "none") =>
          /\ last.err = ""
          /\ WantedOptions
          /\ env.bits = 64 => last.store.MaxAge = WantedInt64("max_age", DefaultMaxAge)
          /\ env.bits = 32 => Low32(last.store.MaxAge, WantedInt64("max_age", DefaultMaxAge))
    /\ (Built /\ last.err # "") => last.fault # "none"

C15_Witness ==
    /\ Built
    /\ last.err = ""
    /\ Given("max_age") = VInt64(PastInt32)
    /\ Given("ttl_enabled").kind = "string"
    /\ last.store.MaxAge = PastInt32
    /\ last.store.ttlEnabled = DefaultTTLEnabled

\* The step is a call of Get, or of New, that changes the state.
GetStep == last'.op = "Get"

NewStep == last'.op = "New"

\* C16: Get registers the session it returns with the request and New does not.
\* A Get on a request that has a session registered returns that same session
\* object and neither decodes the cookie nor reads the table, so that any number
\* of Gets on a request decode and read at most once; a Get on a request that
\* has none registered, and every New, makes a session object that did not
\* exist, and decodes the cookie and loads the record when the request carries
\* a cookie that decodes.
C16_GetRegisters ==
    /\ []((last.op = "Get") => req.reg = last.h /\ Returned.live)
    /\ [][(GetStep /\ req.reg # 0) =>
            /\ last'.hit
            /\ last'.h = req.reg
            /\ sess' = sess
            /\ req' = req
            /\ ~last'.loadRan
            /\ last'.decodeErr = ""]_vars
    /\ [][((GetStep /\ req.reg = 0) \/ NewStep) =>
            /\ ~last'.hit
            /\ ~sess[last'.h].live
            /\ sess'[last'.h].live
            /\ \A g \in Handles \ {last'.h} : sess'[g] = sess[g]
            /\ (req.hasCookie /\ req.cookie.mac /\ WithinCeiling(req.cookie.ts)) =>
                  last'.loadRan /\ last'.decodeErr = ""
            /\ (req.hasCookie /\ ~req.cookie.mac) => last'.decodeErr # ""]_vars
    /\ [][NewStep => req' = req]_vars

C16_Witness ==
    /\ last.op = "Get"
    /\ last.hit
    /\ ~Returned.IsNew
    /\ \E g \in Handles \ {last.h} : sess[g].live /\ ~sess[g].IsNew /\ sess[g].ID = Returned.ID

\* A first Save with MaxAge > 0, of a session that New made for a request
\* without a cookie, returned nil.
FirstSaveCase ==
    /\ last.op = "Save"
    /\ last.err = ""
    /\ last.pre.MaxAge > 0
    /\ last.pre.ID = ""
    /\ last.pre.IsNew
    /\ ~req.hasCookie

\* C17 as stated: IsNew is true until the session is loaded from storage or
\* first saved: after a first Save with MaxAge > 0 that succeeded, of a session
\* made by New without a cookie, the session object's IsNew is false.
C17_Original == FirstSaveCase => ~Returned.IsNew

\* C17 as amended: IsNew is true exactly until the session is loaded from
\* storage.  New and the New that Get runs return IsNew = false exactly when
\* load succeeded; Save never writes IsNew, so that after a first Save that
\* succeeded the session object's IsNew is still true.
C17_IsNewUntilLoaded ==
    /\ last.op = "Save" => Returned.IsNew = last.pre.IsNew
    /\ FirstSaveCase => Returned.IsNew
    /\ (IsRead /\ ~last.hit) => (~Returned.IsNew <=> (last.loadRan /\ last.loadErr = ""))

C17_Witness ==
    /\ FirstSaveCase
    /\ Returned.IsNew
    /\ Returned.ID # ""
    /\ table[Returned.ID].present
    /\ last.setCookie.set

\* A value encoded at ts was issued more than the ceiling of the codecs ago.
Aged(ts) == now - ts > codecMaxAge

\* New, or the New that Get runs, got a cookie with a good MAC that was issued
\* more than the ceiling of the codecs ago.
AgedCookieCase == IsRead /\ ~last.hit /\ last.hadCookie /\ last.cookie.mac /\ Aged(last.cookie.ts)

\* The record of the id is not expired by its ttl and its payload was encoded
\* more than the ceiling of the codecs ago.
AgedPayloadCase(i) ==
    /\ table[i].present
    /\ ~(table[i].ttl > 0 /\ table[i].ttl < now)
    /\ Aged(table[i].data.ts)

\* C18 as stated: after MaxAge(age) the ceiling of the codecs is age, so a
\* cookie or a stored payload issued more than age seconds earlier fails to
\* decode and New and Get return a new session.
C18_Original ==
    /\ AgedCookieCase => last.decodeErr # "" /\ Returned.IsNew
    /\ \A i \in IDs : AgedPayloadCase(i) => ~Loadable(i)

\* C18 as amended: MaxAge(age) sets the Options.MaxAge of the store and the
\* ceiling of the codecs to age and nothing else changes them.  With a ceiling
\* other than 0, a cookie or a stored payload issued more than that many
\* seconds earlier fails to decode, and New and Get return a new session with
\* empty Values (and, for the cookie, the decode error).  A ceiling of 0 is no
\* ceiling: no cookie and no payload fails to decode for its age.
C18_MaxAgeCodecs ==
    /\ [][(storeMaxAge' # storeMaxAge \/ codecMaxAge' # codecMaxAge) =>
            /\ codecMaxAge' = storeMaxAge'
            /\ storeMaxAge' \in env.storeAges
            /\ UNCHANGED <<now, table, sess, req, ttlEnabled>>]_vars
    /\ []((AgedCookieCase /\ codecMaxAge # 0) =>
            /\ last.decodeErr = "expired"
            /\ last.err = "expired"
            /\ ~last.loadRan
            /\ Returned.IsNew
            /\ Returned.Values = EmptyValues)
    /\ [](\A i \in IDs :
            /\ (AgedPayloadCase(i) /\ codecMaxAge # 0) =>
                  load(table, i, now, codecMaxAge, "none") =
                      [err |-> "expired", values |-> EmptyValues]
            /\ (table[i].present /\ table[i].data.mac /\ codecMaxAge = 0) =>
                  load(table, i, now, codecMaxAge, "none").err \in {"", "notfound"})
    /\ []((IsRead /\ ~last.hit /\ last.hadCookie /\ last.cookie.mac /\ codecMaxAge = 0) =>
            /\ last.decodeErr = ""
            /\ (last.item.present /\ last.item.data.mac) => last.loadErr \in {"", "notfound"})

C18_Witness ==
    /\ AgedCookieCase
    /\ codecMaxAge > 0
    /\ now - last.cookie.ts <= CodecDefaultMaxAge
    /\ table[last.cookie.payload].present
    /\ table[last.cookie.payload].data.payload # EmptyValues
    /\ Returned.IsNew

\* The step is the PutItem of the Save in progress on the session object h.
PutStep(h) == saving[h].pc = "encoded" /\ saving'[h].pc = "put"

\* C19: when the Saves (MaxAge > 0) of two requests on one id interleave, each
\* PutItem replaces the whole item by the item of its Save, whatever the table
\* holds, so that the record is at every moment, and once all the Saves have
\* returned, the encoded values of the Save whose PutItem ran last; and a Save
\* whose PutItem and encodings do not fail returns nil.
C19_LastWriterWins ==
    /\ [][\A h \in Handles :
            PutStep(h) =>
                /\ table'[sess[h].ID] = saving[h].item
                /\ saving[h].item.data.payload = sess[h].Values
                /\ saving[h].item.data.mac
                /\ putLog'[sess[h].ID].values = sess[h].Values
                /\ \A i \in IDs \ {sess[h].ID} : table'[i] = table[i]]_vars
    /\ [](\A i \in IDs :
            putLog[i].status \in {"saved", "put"} =>
                table[i].present /\ table[i].data.payload = putLog[i].values)
    /\ []((last.op = "Save" /\ last.fault = "none") => last.err = "")

\* Two sessions loaded from the cookie of one id were saved, and the Save that
\* returned last is not the one whose PutItem ran last: the record holds the
\* values of the other session, which differ.
C19_Witness ==
    /\ last.op = "Save"
    /\ last.err = ""
    /\ ~Returned.IsNew
    /\ \A h \in Handles : Idle(h)
    /\ \E g \in Handles \ {last.h} :
          /\ sess[g].live
          /\ ~sess[g].IsNew
          /\ sess[g].ID = Returned.ID
          /\ sess[g].Values # Returned.Values
          /\ last.tableBefore[Returned.ID].present
          /\ table[Returned.ID].data.payload = sess[g].Values
          /\ table[Returned.ID].data.payload = putLog[Returned.ID].values

\* A Save on the path of a MaxAge > 0 has just written its record.
WrittenCase == last.op = "Save" /\ last.pre.MaxAge > 0 /\ last.fault \notin {"encode", "put"}

\* The record Save has just written carries the time of the Save and, when the
\* ttl flag of the store is set, that time plus the session's Options.MaxAge
\* as ttl, and no ttl otherwise; a record without ttl is written only with the
\* flag unset.
WrittenWithTTL ==
    /\ WrittenCase =>
          /\ table[Returned.ID].present
          /\ table[Returned.ID].modifiedAt = now
          /\ table[Returned.ID].data = [payload |-> Returned.Values, ts |-> now, mac |-> TRUE]
          /\ table[Returned.ID].ttl = (IF ttlEnabled THEN now + last.pre.MaxAge ELSE 0)
    /\ \A i \in IDs : table[i].present => (table[i].ttl = 0 <=> ~ttlEnabled)

\* load got a record that carries no ttl, and the read of the storage did not
\* fail.
NoTTLCase == IsRead /\ last.loadRan /\ last.fault = "none" /\ last.item.present /\ last.item.ttl = 0

\* C20: every record written by Save carries the write time as modifiedAt and,
\* with the ttl flag of the store, ttl = write time + Options.MaxAge; without
\* the flag it carries ttl = 0, and the ttl test of load never takes such a
\* record for expired, however much time passes: a New or Get that reaches load
\* gets the record.
C20_TTLWritten ==
    /\ WrittenWithTTL
    /\ NoTTLCase => last.loadErr = "" /\ ~Returned.IsNew
    /\ \A i \in IDs :
          (table[i].present /\ table[i].ttl = 0) =>
              load(table, i, now, codecMaxAge, "none").err # "notfound"

C20_Witness ==
    /\ NoTTLCase
    /\ ~ttlEnabled
    /\ now >= last.item.modifiedAt + last.pre.MaxAge + DefaultMaxAge
    /\ last.loadErr = ""
    /\ Returned.Values # EmptyValues

\* A Save on the path of a MaxAge > 0 whose PutItem succeeded and whose
\* EncodeMulti of the session id, for the cookie, failed.
CookieFailCase == last.op = "Save" /\ last.pre.MaxAge > 0 /\ last.fault = "cookie"

\* C21: on the path of a MaxAge > 0 Save puts the record before it encodes the
\* session id for the cookie; when that encoding fails after the put, Save
\* returns the error and sets no cookie, and the record that the put wrote
\* stays in the table: nothing undoes the put.
C21_NoRollback ==
    CookieFailCase =>
        /\ last.err = "encode"
        /\ last.setCookie = NoSetCookie
        /\ Returned.ID # ""
        /\ table[Returned.ID] =
               SessionObj(Returned, [payload |-> Returned.Values, ts |-> now, mac |-> TRUE],
                          now, ttlEnabled)
        /\ putLog[Returned.ID].status = "put"
        /\ \A i \in IDs : i # Returned.ID => table[i] = last.tableBefore[i]

C21_Witness ==
    /\ CookieFailCase
    /\ Returned.Values # EmptyValues
    /\ table[Returned.ID].present
    /\ table[Returned.ID] # last.tableBefore[Returned.ID]
    /\ \E i \in IDs : i # Returned.ID /\ table[i].present

\* The table the constructor was to use, and the calls of a bootstrap.
Target == last.wanted.table

Described == <<"DescribeTable">>

Created == <<"DescribeTable", "CreateTable">>

Waited == <<"DescribeTable", "CreateTable", "WaitUntilTableExists">>

TTLUpdated == <<"DescribeTable", "CreateTable", "WaitUntilTableExists", "UpdateTimeToLive">>

\* The table as CreateTable makes it, with the throughput the constructor read
\* from the bag, and TimeToLive on the attribute or not.
NewTable(attribute) ==
    [exists |-> TRUE, read |-> last.wanted.readCapacity, write |-> last.wanted.writeCapacity,
     ttlAttribute |-> attribute, created |-> 1]

\* The constructor got its AWS session and DescribeTable answered: the table
\* exists, or there is none of the name.
ExistsCase ==
    /\ Built
    /\ last.bootFault \notin {"session", "describe", "transport"}
    /\ last.tablesBefore[Target].exists

NotFoundCase ==
    /\ Built
    /\ last.bootFault \notin {"session", "describe", "transport"}
    /\ ~last.tablesBefore[Target].exists

\* C22: the constructor issues CreateTable, then waits for the table, then
\* enables TimeToLive on the attribute ttl if ttl_enabled, only when
\* DescribeTable fails with ResourceNotFoundException.  When the table exists
\* it succeeds and issues DescribeTable alone: throughput and TimeToLive of the
\* table stay as they are, and no table is ever created twice.  Any other
\* error of DescribeTable and any error of CreateTable, of the wait or of
\* UpdateTimeToLive makes the constructor fail and return no store.
C22_Bootstrap ==
    /\ ExistsCase =>
          /\ last.err = ""
          /\ last.calls = Described
          /\ tables = last.tablesBefore
    /\ NotFoundCase =>
          /\ last.bootFault = "create" =>
                last.err # "" /\ last.calls = Created /\ tables = last.tablesBefore
          /\ last.bootFault = "wait" =>
                last.err # "" /\ last.calls = Waited /\ tables[Target] = NewTable("")
          /\ (last.bootFault = "ttl" /\ last.wanted.ttlEnabled) =>
                last.err # "" /\ last.calls = TTLUpdated /\ tables[Target] = NewTable("")
          /\ (last.bootFault = "none" /\ last.wanted.ttlEnabled) =>
                last.err = "" /\ last.calls = TTLUpdated /\ tables[Target] = NewTable("ttl")
          /\ (last.bootFault \in {"none", "ttl"} /\ ~last.wanted.ttlEnabled) =>
                last.err = "" /\ last.calls = Waited /\ tables[Target] = NewTable("")
    /\ (Built /\ last.bootFault \in {"describe", "transport"}) =>
          last.err # "" /\ last.calls = Described /\ tables = last.tablesBefore
    /\ (Built /\ last.err # "") => last.store = NoStore
    /\ (Built /\ last.err = "") => last.store = last.wanted /\ tables[Target].exists
    /\ Built => \A n \in TableNames : n # Target => tables[n] = last.tablesBefore[n]
    /\ \A n \in TableNames : tables[n].created = (IF tables[n].exists THEN 1 ELSE 0)

C22_Witness ==
    /\ ExistsCase
    /\ last.err = ""
    /\ last.wanted.ttlEnabled
    /\ tables[Target].ttlAttribute = ""
    /\ tables[Target].read # last.wanted.readCapacity
    /\ tables[Target].created = 1
    /\ \E n \in TableNames : n # Target /\ tables[n].ttlAttribute = "ttl"

\* The step is a call of New or of Get.
ReadStep == last'.op \in {"New", "Get"}

\* New, or the New that Get runs, reached load and load found a record that it
\* did not return: one expired by its ttl, or one it could not decode.
UnloadedRecordCase ==
    /\ IsRead
    /\ last.loadRan
    /\ last.item.present
    /\ last.loadErr # ""

\* C23: New and Get issue no PutItem and no DeleteItem: a call of either, one
\* that finds an expired record or one it cannot decode included, leaves the
\* records of the table, each with its data, modifiedAt and ttl, as they were;
\* it neither refreshes a ttl nor removes an expired record.
C23_ReadOnly ==
    /\ [][ReadStep => UNCHANGED <<table, putLog, tables, now>>]_vars
    /\ [](IsRead => table = last.tableBefore)
    /\ [](UnloadedRecordCase => table[Returned.ID] = last.item)

C23_Witness ==
    /\ UnloadedRecordCase
    /\ last.loadErr = "notfound"
    /\ Expired(last.item, now)
    /\ table[Returned.ID].present
    /\ table[Returned.ID].ttl = last.item.ttl
    /\ table[Returned.ID].data.payload # EmptyValues

\* New, or the New that Get runs, decoded the cookie to an id and load failed.
FailedLoadCase == IsRead /\ ~last.hit /\ last.loadRan /\ last.loadErr # ""

\* The step is a Save, on the path of a MaxAge > 0, of the session that the
\* call before it returned, and its encoding of the values and its PutItem do
\* not fail.
SaveOfReturned ==
    /\ last'.op = "Save"
    /\ last'.h = last.h
    /\ last'.pre.MaxAge > 0
    /\ last'.fault \notin {"encode", "put"}

\* C24: when the cookie of the request decodes to an id and load fails, the
\* session that New or Get returns has IsNew set and the id of the cookie; a
\* Save of it with MaxAge > 0 draws no id and puts the record under the id the
\* client presented, with the values of the session, the time of the Save and
\* the ttl of that time.
C24_IdRetained ==
    /\ [](FailedLoadCase =>
            /\ Returned.IsNew
            /\ Returned.ID = last.cookie.payload
            /\ Returned.ID # ""
            /\ Returned.Values = EmptyValues)
    /\ [][(FailedLoadCase /\ SaveOfReturned) =>
            /\ sess'[last.h].ID = last.cookie.payload
            /\ table'[last.cookie.payload] =
                   SessionObj(sess[last.h],
                              [payload |-> sess[last.h].Values, ts |-> now, mac |-> TRUE],
                              now, ttlEnabled)
            /\ \A i \in IDs : i # last.cookie.payload => table'[i] = table[i]]_vars
    /\ []((last.op = "Save" /\ last.pre.MaxAge > 0 /\ last.pre.ID # "") =>
            Returned.ID = last.pre.ID)

\* The Save of a session that New built from a good cookie and whose load
\* failed on a record past its ttl: the record is written anew under the id of
\* the cookie.
C24_Witness ==
    /\ last.op = "Save"
    /\ last.err = ""
    /\ last.pre.IsNew
    /\ req.hasCookie
    /\ req.cookie.mac
    /\ last.pre.ID = req.cookie.payload
    /\ last.tableBefore[last.pre.ID].present
    /\ Expired(last.tableBefore[last.pre.ID], now)
    /\ table[last.pre.ID].present
    /\ ~Expired(table[last.pre.ID], now)
    /\ table[last.pre.ID].ttl > last.tableBefore[last.pre.ID].ttl
    /\ Returned.ID = last.pre.ID

====
